---------------------------- MODULE Spec2Model ----------------------------
(***************************************************************************)
(* A model of src/verify.py: the markdown feature-table parser             *)
(* (parse_feature_table), the two GitHub calls (fetch_github_file and      *)
(* verify_commit) behind the retrying session of                           *)
(* create_session_with_retry, and the fail-fast pipeline run_verification. *)
(*                                                                         *)
(* Python strings are sequences of one-character strings, so that strip,   *)
(* split, startswith, "in" and the regular expressions are computed on the *)
(* characters as the code computes them.  A value that may be None is a    *)
(* record [t, v]: PyNone or PyStr(s).  A dict is a sequence of <<key,      *)
(* value>> pairs in insertion order.                                       *)
(***************************************************************************)
EXTENDS Integers, Sequences, FiniteSets, TLC

VARIABLES
    entry,          \* the function the caller invoked
    pc,             \* the position in that function
    config,         \* the configuration dict (run_verification) / table_header
    content,        \* parse_feature_table's content argument
    doc_content,    \* run_verification: what fetch_github_file returned
    features,       \* the parsed records
    idx,            \* run_verification step 6: index of the record at hand
    commit_sha,     \* verify_commit's commit_sha argument
    http,           \* the session's request in progress (attempts, retry budget)
    response,       \* what session.get returned or raised
    commit_detail,  \* what verify_commit returned
    details,        \* the commit details obtained, by record index
    ret,            \* the invoked function's return value
    stderr,         \* the diagnostics printed to sys.stderr, as tags
    sent,           \* HTTP attempts sent so far, by endpoint
    trace           \* run_verification: the checks performed, in order

vars == << entry, pc, config, content, doc_content, features, idx, commit_sha,
           http, response, commit_detail, details, ret, stderr, sent, trace >>

-----------------------------------------------------------------------------
(* Python values *)

PyNone == [t |-> "None", v |-> << >>]

PyStr(s) == [t |-> "str", v |-> s]

PyBool(b) == [t |-> "bool", v |-> IF b THEN <<"1">> ELSE << >>]

\* Python truthiness of None / str: "not x" is ~Truthy(x)
Truthy(x) == x.t # "None" /\ x.v # << >>

-----------------------------------------------------------------------------
(* str methods *)

Whitespace == {" ", "\t", "\r", "\n"}

\* str.strip()
Strip(s) ==
    LET keep == {i \in 1..Len(s) : s[i] \notin Whitespace}
    IN  IF keep = {} THEN << >>
        ELSE SubSeq(s, CHOOSE i \in keep : \A j \in keep : i <= j,
                       CHOOSE i \in keep : \A j \in keep : j <= i)

\* str.startswith(p)
StartsWith(s, p) == Len(s) >= Len(p) /\ SubSeq(s, 1, Len(p)) = p

\* p in s
Contains(s, p) ==
    \E i \in 1..(Len(s) - Len(p) + 1) : SubSeq(s, i, i + Len(p) - 1) = p

\* str.split(sep) for a one-character sep: count(sep) + 1 segments, the k-th
\* one lying between the (k-1)-th and the k-th separator
Split(s, sep) ==
    LET at == {i \in 1..Len(s) : s[i] = sep}
        n == Cardinality(at)
        Pos(k) == IF k = 0 THEN 0
                  ELSE IF k = n + 1 THEN Len(s) + 1
                  ELSE CHOOSE i \in at : Cardinality({j \in at : j <= i}) = k
    IN  [k \in 1..(n + 1) |-> SubSeq(s, Pos(k - 1) + 1, Pos(k) - 1)]

\* list[1:-1]
Slice1m1(l) == SubSeq(l, 2, Len(l) - 1)

-----------------------------------------------------------------------------
(* parse_feature_table *)

MinCells == 7

\* cells = [cell.strip() for cell in line.split("|")[1:-1]]
Cells_KeepLast(line) ==
    LET segs == SubSeq(Split(line, "|"), 2, Len(Split(line, "|")))
    IN  [k \in 1..Len(segs) |-> Strip(segs[k])]

Cells(line) ==
    LET segs == Slice1m1(Split(line, "|"))
    IN  [k \in 1..Len(segs) |-> Strip(segs[k])]

Feature(cells) ==
    [name |-> cells[1], sha |-> cells[2], author |-> cells[3],
     branch |-> cells[4], date |-> cells[5], files_changed |-> cells[6],
     message |-> cells[7]]

\* the body of "for line in lines", from line i on
RECURSIVE ParseLoop(_, _, _, _, _)
ParseLoop(lines, table_header, i, table_started, feats) ==
    IF i > Len(lines) THEN feats
    ELSE
      LET line == Strip(lines[i]) IN
      IF Contains(line, table_header)
        THEN ParseLoop(lines, table_header, i + 1, TRUE, feats)
      ELSE IF ~table_started
        THEN ParseLoop(lines, table_header, i + 1, table_started, feats)
      ELSE IF StartsWith(line, <<"#", "#">>) /\ table_started
        THEN feats
      ELSE IF StartsWith(line, <<"|">>) /\ Contains(line, <<"-", "-", "-">>)
        THEN ParseLoop(lines, table_header, i + 1, table_started, feats)
      ELSE IF StartsWith(line, <<"|">>) /\ table_started
        THEN LET cells == Cells(line) IN
             IF Len(cells) >= MinCells
               THEN ParseLoop(lines, table_header, i + 1, table_started,
                              Append(feats, Feature(cells)))
               ELSE ParseLoop(lines, table_header, i + 1, table_started, feats)
      ELSE ParseLoop(lines, table_header, i + 1, table_started, feats)

parse_feature_table(c, table_header) ==
    ParseLoop(Split(c, "\n"), table_header, 1, FALSE, << >>)


-----------------------------------------------------------------------------
(* create_session_with_retry: session.get behind HTTPAdapter(max_retries=   *)
(* Retry(total=3, backoff_factor=0.5, status_forcelist=[...])).  Retry's    *)
(* total is the number of retries allowed after the first request; each     *)
(* retried outcome takes one from it, and the request fails with            *)
(* MaxRetryError once it drops below zero.  GET is idempotent, so connection *)
(* errors and timeouts are retried like the listed statuses.                *)

RetryTotal == 3

StatusForcelist == {429, 500, 502, 503, 504}

NoAuthor == [t |-> "None", login |-> PyNone]

NoBody ==
    [json |-> FALSE, encoding |-> "none", content |-> PyNone,
     keys |-> {}, author |-> NoAuthor, message |-> PyNone]

NoOutcome == [kind |-> "none", status |-> 0, body |-> NoBody]

\* Retry.is_retry for a response without a Retry-After header; an error of
\* the transport is handed to Retry.increment whatever it is
IsRetry(o) ==
    IF o.kind = "response" THEN o.status \in StatusForcelist ELSE TRUE

\* Retry.is_exhausted, of the budget left after Retry.increment
Exhausted_OneMore(left) == left < -1

Exhausted(left) == left < 0

\* what session.get raises once the retries are exhausted: requests turns
\* MaxRetryError into ConnectTimeout (a requests.Timeout) for a connect
\* timeout, into RetryError for a response, into ConnectionError otherwise
Raised(o) ==
    [kind |-> IF o.kind = "connect_timeout" THEN "raised_timeout"
              ELSE "raised_exception",
     status |-> 0, body |-> NoBody]

Endpoint(p) == IF p = "fetch_get" THEN "contents" ELSE "commits"

-----------------------------------------------------------------------------
(* fetch_github_file *)

\* base64 is a free constructor: decoding gives back what was encoded
B64Encode(d) == [t |-> "b64", v |-> d]

B64Decode(x) == x.v

\* the diagnostic two failures print alike
FetchResult_403As404(r) ==
    IF r.kind = "response" /\ r.status = 403
      THEN [ret |-> PyNone, diag |-> "fetch_404"]
    ELSE IF r.kind = "response" /\ r.status = 404
      THEN [ret |-> PyNone, diag |-> "fetch_404"]
    ELSE IF r.kind = "raised_timeout"
      THEN [ret |-> PyNone, diag |-> "fetch_timeout"]
    ELSE [ret |-> PyNone, diag |-> "fetch_exception"]

\* the value returned and the line printed to stderr ("": none)
FetchResult(r) ==
    IF r.kind = "response" THEN
        IF r.status = 200 THEN
            IF ~r.body.json THEN [ret |-> PyNone, diag |-> "fetch_exception"]
            ELSE IF r.body.encoding = "base64"
              THEN [ret |-> PyStr(B64Decode(r.body.content)), diag |-> ""]
            ELSE IF r.body.content.t = "None"
              THEN [ret |-> PyStr(<< >>), diag |-> ""]
            ELSE [ret |-> r.body.content, diag |-> ""]
        ELSE IF r.status = 404 THEN [ret |-> PyNone, diag |-> "fetch_404"]
        ELSE IF r.status = 403 THEN [ret |-> PyNone, diag |-> "fetch_403"]
        ELSE [ret |-> PyNone, diag |-> "fetch_status"]
    ELSE IF r.kind = "raised_timeout"
      THEN [ret |-> PyNone, diag |-> "fetch_timeout"]
    ELSE [ret |-> PyNone, diag |-> "fetch_exception"]

Eprint(log, diag) == IF diag = "" THEN log ELSE Append(log, diag)

-----------------------------------------------------------------------------
(* verify_commit *)

HexChars == {"a", "b", "c", "d", "e", "f",
             "0", "1", "2", "3", "4", "5", "6", "7", "8", "9"}

DigitChars == {"0", "1", "2", "3", "4", "5", "6", "7", "8", "9"}

ShaLen == 40

\* re.match(r'^[a-f0-9]{40}$', s): Python's $ also matches just before a
\* line break that ends the string
ReMatchSha(s) ==
    /\ Len(s) >= ShaLen
    /\ \A k \in 1..ShaLen : s[k] \in HexChars
    /\ \/ Len(s) = ShaLen
       \/ Len(s) = ShaLen + 1 /\ s[ShaLen + 1] = "\n"

\* re.match(r"^\d{4}-\d{2}-\d{2}$", s)
ReMatchDate(s) ==
    /\ Len(s) >= 10
    /\ \A k \in {1, 2, 3, 4, 6, 7, 9, 10} : s[k] \in DigitChars
    /\ s[5] = "-" /\ s[8] = "-"
    /\ \/ Len(s) = 10
       \/ Len(s) = 11 /\ s[11] = "\n"

PyDict(d) == [t |-> "dict", v |-> <<d>>]

\* the value returned and the line printed to stderr, for what session.get
\* gave
CommitResult(r) ==
    IF r.kind = "response" THEN
        IF r.status # 200 THEN
            [ret |-> PyNone,
             diag |-> IF r.status = 404 THEN "commit_404"
                      ELSE IF r.status = 403 THEN "commit_403"
                      ELSE "commit_status"]
        ELSE IF ~r.body.json THEN [ret |-> PyNone, diag |-> "commit_json"]
        ELSE IF ~({"sha", "commit"} \subseteq r.body.keys)
          THEN [ret |-> PyNone, diag |-> "commit_missing_field"]
        ELSE IF /\ "author" \in r.body.keys
                /\ r.body.author.t # "None"
                /\ r.body.author.t # "dict"
          THEN [ret |-> PyNone, diag |-> "commit_author_type"]
        ELSE [ret |-> PyDict(r.body), diag |-> ""]
    ELSE IF r.kind = "raised_timeout"
      THEN [ret |-> PyNone, diag |-> "commit_timeout"]
    ELSE [ret |-> PyNone, diag |-> "commit_exception"]

-----------------------------------------------------------------------------
(* run_verification *)

\* dict: a sequence of [k, v] entries with distinct keys
HasKey(d, key) == \E i \in 1..Len(d) : d[i].k = key

\* d.get(key, default)
GetOr(d, key, default) ==
    IF HasKey(d, key) THEN d[CHOOSE i \in 1..Len(d) : d[i].k = key].v
    ELSE default

\* feat_name_to_sha = {feat["name"]: feat["sha"] for feat in features}: of
\* two records of one name the later one stays
NameToSha(feats) ==
    [k \in { i \in 1..Len(feats) :
               \A j \in (i + 1)..Len(feats) : feats[j].name # feats[i].name }
       |-> feats[k].sha]

NameKnown(feats, name) == \E i \in 1..Len(feats) : feats[i].name = name

ShaOfName(feats, name) ==
    NameToSha(feats)[CHOOSE i \in DOMAIN NameToSha(feats) : feats[i].name = name]

\* step 2: the first required section the document lacks (0: none)
FirstMissingSection(doc, sections) ==
    IF \E k \in 1..Len(sections) : ~Contains(doc, sections[k])
      THEN CHOOSE k \in 1..Len(sections) :
             /\ ~Contains(doc, sections[k])
             /\ \A j \in 1..(k - 1) : Contains(doc, sections[j])
      ELSE 0

\* step 5, one pair: the name is in the table with the expected sha
PairMatches_NameOnly(feats, pair) == NameKnown(feats, pair.k)

PairMatches(feats, pair) ==
    /\ NameKnown(feats, pair.k)
    /\ ShaOfName(feats, pair.k) = pair.v

\* step 5: the first pair of expected_features that fails (0: none)
FirstMismatch(feats, expected) ==
    IF \E k \in 1..Len(expected) : ~PairMatches(feats, expected[k])
      THEN CHOOSE k \in 1..Len(expected) :
             /\ ~PairMatches(feats, expected[k])
             /\ \A j \in 1..(k - 1) : PairMatches(feats, expected[j])
      ELSE 0

\* commit_detail.get('author')
AuthorOf(d) == IF "author" \in d.keys THEN d.author ELSE NoAuthor

\* step 6c, lines 360-374
AuthorPasses_NullAlways(d, expected) ==
    IF AuthorOf(d).t = "None" THEN TRUE
    ELSE Truthy(AuthorOf(d).login) /\ AuthorOf(d).login = expected

AuthorPasses(d, expected) ==
    IF AuthorOf(d).t = "None" THEN expected.t = "None"
    ELSE Truthy(AuthorOf(d).login) /\ AuthorOf(d).login = expected

\* commit_detail.get("commit", {}).get("message", "").split("\n")[0]
FirstLine(d) ==
    Split(IF d.message.t = "None" THEN << >> ELSE d.message.v, "\n")[1]

\* step 6d, lines 377-383
MessagePasses(d, sha, expected_msgs) ==
    PyStr(FirstLine(d)) = GetOr(expected_msgs, sha, PyStr(<< >>))

\* step 6e, lines 386-395
DatePasses_FormatOnly(feat, expected_dates) == ReMatchDate(feat.date)

DatePasses(feat, expected_dates) ==
    /\ ReMatchDate(feat.date)
    /\ PyStr(feat.date) = GetOr(expected_dates, feat.sha, PyNone)

\* the record at hand has a well-formed sha (step 6a, line 348)
ShaFormatPasses_Skipped(sha) == TRUE

ShaFormatPasses(sha) == ReMatchSha(sha)

Check(step, rec, ok) == [step |-> step, rec |-> rec, ok |-> ok]

\* the checks of a loop that stops at its first failure k of n (0: none)
LoopChecks(step, n, k) ==
    [j \in 1..(IF k = 0 THEN n ELSE k) |-> Check(step, j, j # k)]

Fail(diag) ==
    /\ ret' = PyBool(FALSE)
    /\ pc' = "done"
    /\ stderr' = Eprint(stderr, diag)

\* lines 287-289
Step1 ==
    /\ pc = "step1"
    /\ trace' = Append(trace, Check("fetch", 0, Truthy(doc_content)))
    /\ IF ~Truthy(doc_content)
         THEN Fail("")
         ELSE pc' = "step2" /\ UNCHANGED << ret, stderr >>
    /\ UNCHANGED << entry, config, content, doc_content, features, idx,
                    commit_sha, http, response, commit_detail, details, sent >>

\* lines 292-299
Step2 ==
    /\ pc = "step2"
    /\ LET k == FirstMissingSection(doc_content.v, config.required_sections) IN
       /\ trace' = trace \o LoopChecks("section", Len(config.required_sections), k)
       /\ IF k # 0
            THEN Fail("section_missing")
            ELSE pc' = "step3" /\ UNCHANGED << ret, stderr >>
    /\ UNCHANGED << entry, config, content, doc_content, features, idx,
                    commit_sha, http, response, commit_detail, details, sent >>

\* lines 301-311
Step3 ==
    /\ pc = "step3"
    /\ features' = parse_feature_table(doc_content.v, config.table_header)
    /\ trace' = Append(trace, Check("parse", 0, Len(features') # 0))
    /\ IF Len(features') = 0
         THEN Fail("no_features")
         ELSE pc' = "step4" /\ UNCHANGED << ret, stderr >>
    /\ UNCHANGED << entry, config, content, doc_content, idx, commit_sha, http,
                    response, commit_detail, details, sent >>

\* lines 313-318
Step4 ==
    /\ pc = "step4"
    /\ trace' = Append(trace, Check("min_count", 0,
                                    ~(Len(features) < config.min_feature_count)))
    /\ IF Len(features) < config.min_feature_count
         THEN Fail("too_few_features")
         ELSE pc' = "step5" /\ UNCHANGED << ret, stderr >>
    /\ UNCHANGED << entry, config, content, doc_content, features, idx,
                    commit_sha, http, response, commit_detail, details, sent >>

\* lines 320-335
Step5 ==
    /\ pc = "step5"
    /\ LET k == FirstMismatch(features, config.expected_features) IN
       /\ trace' = trace \o LoopChecks("feature", Len(config.expected_features), k)
       /\ IF k # 0
            THEN Fail(IF NameKnown(features, config.expected_features[k].k)
                        THEN "sha_mismatch" ELSE "feature_missing")
            ELSE pc' = "step6" /\ UNCHANGED << ret, stderr >>
    /\ UNCHANGED << entry, config, content, doc_content, features, idx,
                    commit_sha, http, response, commit_detail, details, sent >>

\* lines 340-352: the next record; skipped, refused for its sha, or looked up
Step6a ==
    /\ pc = "step6"
    /\ idx < Len(features)
    /\ idx' = idx + 1
    /\ LET sha == features[idx + 1].sha IN
       IF ~HasKey(config.expected_authors, sha)
         THEN /\ pc' = "step6"
              /\ UNCHANGED << ret, stderr, trace, commit_sha >>
         ELSE /\ trace' = Append(trace, Check("sha_format", idx + 1,
                                              ShaFormatPasses(sha)))
              /\ IF ~ShaFormatPasses(sha)
                   THEN Fail("bad_sha") /\ UNCHANGED commit_sha
                   ELSE /\ commit_sha' = sha
                        /\ pc' = "commit_call"
                        /\ UNCHANGED << ret, stderr >>
    /\ UNCHANGED << entry, config, content, doc_content, features, http,
                    response, commit_detail, details, sent >>

\* lines 354-357
Step6b ==
    /\ pc = "step6b"
    /\ trace' = Append(trace, Check("lookup", idx, commit_detail.t # "None"))
    /\ details' = Append(details, [rec |-> idx, detail |-> commit_detail])
    /\ IF commit_detail.t = "None"
         THEN Fail("no_commit_detail")
         ELSE pc' = "step6c" /\ UNCHANGED << ret, stderr >>
    /\ UNCHANGED << entry, config, content, doc_content, features, idx,
                    commit_sha, http, response, commit_detail, sent >>

\* lines 359-374
Step6c ==
    /\ pc = "step6c"
    /\ LET ok == AuthorPasses(commit_detail.v[1],
                              GetOr(config.expected_authors, features[idx].sha,
                                    PyNone)) IN
       /\ trace' = Append(trace, Check("author", idx, ok))
       /\ IF ~ok
            THEN Fail(IF AuthorOf(commit_detail.v[1]).t = "None"
                        THEN "author_unlinked" ELSE "author_mismatch")
            ELSE /\ pc' = "step6d"
                 /\ stderr' = stderr
                 /\ UNCHANGED ret
    /\ UNCHANGED << entry, config, content, doc_content, features, idx,
                    commit_sha, http, response, commit_detail, details, sent >>

\* lines 376-383
Step6d ==
    /\ pc = "step6d"
    /\ LET ok == MessagePasses(commit_detail.v[1], features[idx].sha,
                               config.expected_messages) IN
       /\ trace' = Append(trace, Check("message", idx, ok))
       /\ IF ~ok
            THEN Fail("message_mismatch")
            ELSE pc' = "step6e" /\ UNCHANGED << ret, stderr >>
    /\ UNCHANGED << entry, config, content, doc_content, features, idx,
                    commit_sha, http, response, commit_detail, details, sent >>

\* lines 385-398
Step6e ==
    /\ pc = "step6e"
    /\ LET ok == DatePasses(features[idx], config.expected_dates) IN
       /\ trace' = Append(trace, Check("date", idx, ok))
       /\ IF ~ok
            THEN Fail(IF ReMatchDate(features[idx].date)
                        THEN "date_mismatch" ELSE "bad_date")
            ELSE pc' = "step6" /\ UNCHANGED << ret, stderr >>
    /\ UNCHANGED << entry, config, content, doc_content, features, idx,
                    commit_sha, http, response, commit_detail, details, sent >>

\* lines 400-406
Step7 ==
    /\ pc = "step6"
    /\ idx = Len(features)
    /\ ret' = PyBool(TRUE)
    /\ pc' = "done"
    /\ UNCHANGED << entry, config, content, doc_content, features, idx,
                    commit_sha, http, response, commit_detail, details, stderr,
                    sent, trace >>

-----------------------------------------------------------------------------
(* The caller's inputs: documents and configurations *)

\* "sep".join(lines)
RECURSIVE Join(_, _)
Join(lines, sep) ==
    IF lines = << >> THEN << >>
    ELSE IF Len(lines) = 1 THEN lines[1]
    ELSE lines[1] \o <<sep>> \o Join(Tail(lines), sep)

RECURSIVE RowBody(_)
RowBody(cells) ==
    IF cells = << >> THEN << >>
    ELSE <<" ">> \o Head(cells) \o <<" ", "|">> \o RowBody(Tail(cells))

\* a markdown row "| c1 | c2 | ... |", or the same without its last pipe
Row(cells, trailing) ==
    LET r == <<"|">> \o RowBody(cells)
    IN  IF trailing THEN r ELSE SubSeq(r, 1, Len(r) - 1)

Rep(ch, n) == [k \in 1..n |-> ch]

Marker == <<"T", "H">>

HeaderLine == Row(<<Marker, <<"S">> >>, TRUE)

DividerLine == <<"|", "-", "-", "-", "|", "-", "-", "-", "|">>

DateOk == <<"2", "0", "2", "4", "-", "0", "1", "-", "0", "1">>

DateBad == <<"2", "0", "2", "4", "-", "1", "-", "1">>

MsgFix == <<"f", "i", "x">>

\* the cells of a well-formed row for feature nm at commit sha
GoodCells(nm, sha, date) ==
    << nm, sha, <<"a", "l">>, <<"m">>, date, <<"3">>, MsgFix >>

\* a short row: one-character cells, the first one nm
ShortCells(nm) == << nm, <<"a">>, <<"l">>, <<"m">>, <<"d">>, <<"3">>, <<"f">> >>

\* lines a feature document may hold after its header: two well-formed rows,
\* the divider, a row of 6 cells, a row of 7 cells one of them empty, a row
\* of 8 cells, a row of 7 cells without its last pipe, a row with --- in a
\* cell, a row with the header marker in a cell, a ## heading, an indented
\* ## heading, a ## heading that holds the header marker, a line of prose
ParseMenu ==
    << Row(ShortCells(<<"X">>), TRUE),
       Row(ShortCells(<<"Y">>), TRUE),
       DividerLine,
       Row(SubSeq(ShortCells(<<"X">>), 1, 6), TRUE),
       Row(<< <<"X">>, << >>, <<"l">>, <<"m">>, <<"d">>, <<"3">>, <<"f">> >>, TRUE),
       Row(ShortCells(<<"X">>) \o << <<"e">> >>, TRUE),
       Row(ShortCells(<<"X">>), FALSE),
       Row(SubSeq(ShortCells(<<"X">>), 1, 6) \o << <<"-", "-", "-">> >>, TRUE),
       Row(SubSeq(ShortCells(<<"X">>), 1, 6) \o << Marker >>, TRUE),
       <<"#", "#", "N">>,
       <<" ", "#", "#", "N">>,
       <<"#", "#", " ">> \o Marker,
       <<"o", "k">> >>

MaxBody == 2

BodySeqs == UNION { [1..n -> 1..Len(ParseMenu)] : n \in 0..MaxBody }

\* a document: lines before the header, the header, lines after it
ParseDocs ==
    { Join(pre \o <<HeaderLine>> \o [k \in 1..Len(b) |-> ParseMenu[b[k]]], "\n") :
        pre \in { << >>, <<ParseMenu[1]>> }, b \in BodySeqs }

SecI == <<"#", "I">>

SecU == <<"#", "U">>

NameX == <<"X">>

NameY == <<"Y">>

ShaA == Rep("a", ShaLen)

ShaB == [k \in 1..ShaLen |-> IF k % 2 = 0 THEN "0" ELSE "f"]

Sha39 == Rep("c", ShaLen - 1)

ShaUpper == <<"A">> \o Rep("a", ShaLen - 1)

\* rows of the document run_verification fetches: X at ShaA, Y at ShaB, X
\* again at ShaB, Y at a sha of 39 characters, Y at ShaB with a date that is
\* no YYYY-MM-DD
RunMenu ==
    << Row(GoodCells(NameX, ShaA, DateOk), TRUE),
       Row(GoodCells(NameY, ShaB, DateOk), TRUE),
       Row(GoodCells(NameX, ShaB, DateOk), TRUE),
       Row(GoodCells(NameY, Sha39, DateOk), TRUE),
       Row(GoodCells(NameY, ShaB, DateBad), TRUE) >>

MaxRows == 2

RunDocs ==
    { Join(<<SecI, HeaderLine>> \o [k \in 1..Len(b) |-> RunMenu[b[k]]], "\n") :
        b \in UNION { [1..n -> 1..Len(RunMenu)] : n \in 0..MaxRows } }

KV(key, val) == [k |-> key, v |-> val]

Alice == PyStr(<<"a", "l">>)

\* required_sections and min_feature_count
RunFloors ==
    { [sections |-> <<SecI>>, min |-> 1],
      [sections |-> <<SecI, SecU>>, min |-> 1],
      [sections |-> <<SecI>>, min |-> 2] }

RunExpectedFeatures ==
    { << >>, <<KV(NameX, ShaA)>>, <<KV(NameX, ShaA), KV(NameY, ShaB)>> }

\* expected_authors; its keys may be malformed, and may be no record's sha
RunExpectedAuthors ==
    { << >>,
      <<KV(ShaA, Alice)>>,
      <<KV(ShaA, PyNone), KV(ShaB, Alice)>>,
      <<KV(Sha39, Alice), KV(ShaA, Alice)>>,
      <<KV(ShaUpper, Alice)>> }

\* expected_messages and expected_dates; a key may be malformed
RunExpectedDetails ==
    { [messages |-> <<KV(ShaA, PyStr(MsgFix)), KV(ShaB, PyStr(MsgFix))>>,
       dates |-> <<KV(ShaA, PyStr(DateOk)), KV(ShaB, PyStr(DateOk))>>],
      [messages |-> <<KV(ShaA, PyStr(MsgFix)), KV(ShaB, PyStr(MsgFix))>>,
       dates |-> <<KV(ShaA, PyStr(DateOk)), KV(ShaB, PyStr(DateBad))>>],
      [messages |-> <<KV(ShaUpper, PyStr(MsgFix)), KV(ShaA, PyStr(MsgFix))>>,
       dates |-> <<KV(ShaA, PyStr(DateOk)), KV(Sha39, PyStr(DateOk))>>] }

RunConfigs ==
    { [table_header |-> Marker, required_sections |-> f.sections,
       min_feature_count |-> f.min, expected_features |-> ef,
       expected_authors |-> ea, expected_messages |-> ed.messages,
       expected_dates |-> ed.dates] :
        f \in RunFloors, ef \in RunExpectedFeatures,
        ea \in RunExpectedAuthors, ed \in RunExpectedDetails }

NoConfig ==
    [table_header |-> Marker, required_sections |-> << >>,
     min_feature_count |-> 0, expected_features |-> << >>,
     expected_authors |-> << >>, expected_messages |-> << >>,
     expected_dates |-> << >>]

NoHttp == [attempts |-> 0, total |-> 0, last |-> NoOutcome]

NoSent == [contents |-> 0, commits |-> 0]

-----------------------------------------------------------------------------
(* parse_feature_table called on its own *)

InitParse ==
    /\ entry = "parse_feature_table"
    /\ pc = "call"
    /\ config = NoConfig
    /\ content \in ParseDocs
    /\ doc_content = PyNone
    /\ features = << >>
    /\ idx = 0
    /\ commit_sha = << >>
    /\ http = NoHttp
    /\ response = NoOutcome
    /\ commit_detail = PyNone
    /\ details = << >>
    /\ ret = PyNone
    /\ stderr = << >>
    /\ sent = NoSent
    /\ trace = << >>

ParseCall ==
    /\ entry = "parse_feature_table"
    /\ pc = "call"
    /\ features' = parse_feature_table(content, config.table_header)
    /\ pc' = "done"
    /\ UNCHANGED << entry, config, content, doc_content, idx, commit_sha, http,
                    response, commit_detail, details, ret, stderr, sent, trace >>

NextParse == ParseCall

SpecParse == InitParse /\ [][NextParse]_vars

-----------------------------------------------------------------------------
(* What the server may answer *)

ContentsBody(enc, c) ==
    [json |-> TRUE, encoding |-> enc, content |-> c,
     keys |-> {}, author |-> NoAuthor, message |-> PyNone]

CommitBody(keys, author, message) ==
    [json |-> TRUE, encoding |-> "none", content |-> PyNone,
     keys |-> keys, author |-> author, message |-> message]

Login(l) == [t |-> "dict", login |-> l]

\* author: null, an object with a login, with an empty login, without a
\* login, or a string
AuthorSet ==
    { NoAuthor, Login(PyStr(<<"a", "l">>)), Login(PyStr(<<"b">>)),
      Login(PyStr(<< >>)), Login(PyNone), [t |-> "str", login |-> PyNone] }

MessageSet ==
    { PyStr(MsgFix), PyStr(MsgFix \o <<"\n", "b">>), PyStr(MsgFix \o <<".">>),
      PyNone }

CommitBodies ==
    { CommitBody({"sha", "commit", "author"}, a, m) :
        a \in AuthorSet, m \in MessageSet }
    \cup { CommitBody({"sha", "commit"}, NoAuthor, m) : m \in MessageSet }
    \cup { CommitBody({"commit", "author"}, NoAuthor, PyStr(MsgFix)),
           CommitBody({"sha", "author"}, NoAuthor, PyNone),
           NoBody }

\* inside run_verification: every author with a message that matches, two
\* authors with one that does not, and the malformed bodies
RunCommitBodies ==
    { CommitBody({"sha", "commit", "author"}, a, PyStr(MsgFix \o <<"\n", "b">>)) :
        a \in AuthorSet }
    \cup { CommitBody({"sha", "commit", "author"}, a, PyStr(MsgFix \o <<".">>)) :
             a \in { NoAuthor, Login(PyStr(<<"a", "l">>)) } }
    \cup { CommitBody({"sha", "commit"}, NoAuthor, PyStr(MsgFix)),
           CommitBody({"sha", "commit"}, NoAuthor, PyNone),
           CommitBody({"commit", "author"}, NoAuthor, PyStr(MsgFix)),
           NoBody }

Response(status, body) == [kind |-> "response", status |-> status, body |-> body]

TransportError(k) == [kind |-> k, status |-> 0, body |-> NoBody]

FailureOutcomes ==
    { Response(st, NoBody) : st \in {400, 403, 404} \cup StatusForcelist }
    \cup { TransportError(k) : k \in {"connect_timeout", "read_timeout", "conn_error"} }

\* a direct call of fetch_github_file: the file is empty or holds "hi"
CallOutcomes(p) ==
    FailureOutcomes \cup
    IF p = "fetch_get"
      THEN { Response(200, b) :
               b \in { ContentsBody("base64", B64Encode(<<"h", "i">>)),
                       ContentsBody("base64", B64Encode(<< >>)),
                       ContentsBody("none", PyStr(<<"h", "i">>)),
                       ContentsBody("none", PyNone),
                       NoBody } }
      ELSE { Response(200, b) : b \in CommitBodies }

\* inside run_verification: the document is one of RunDocs or empty, and
\* no answer is one the session retries
RunOutcomes(p) ==
    IF p = "fetch_get"
      THEN { Response(404, NoBody) } \cup { Response(200, ContentsBody("base64", B64Encode(d))) :
               d \in RunDocs \cup { << >> } }
      ELSE { Response(404, NoBody) } \cup
           { Response(200, b) : b \in RunCommitBodies }

Outcomes(p) ==
    IF entry = "run_verification" THEN RunOutcomes(p) ELSE CallOutcomes(p)

\* arguments of a direct call of verify_commit: two shas, 39 characters, an
\* upper-case character, a line break after the 40 characters, 41
\* characters, nothing, a character that is no hex digit
ShaInputs ==
    { ShaA, ShaB, Rep("a", ShaLen - 1), <<"A">> \o Rep("a", ShaLen - 1),
      ShaA \o <<"\n">>, ShaA \o <<"a">>, << >>, Rep("a", ShaLen - 1) \o <<"g">> }

-----------------------------------------------------------------------------
(* fetch_github_file and verify_commit as the program runs them *)

InitHttp ==
    /\ entry \in {"fetch_github_file", "verify_commit"}
    /\ pc = IF entry = "fetch_github_file" THEN "fetch_call" ELSE "commit_call"
    /\ commit_sha \in IF entry = "verify_commit" THEN ShaInputs ELSE { << >> }
    /\ config = NoConfig
    /\ content = << >>
    /\ doc_content = PyNone
    /\ features = << >>
    /\ idx = 0
    /\ http = NoHttp
    /\ response = NoOutcome
    /\ commit_detail = PyNone
    /\ details = << >>
    /\ ret = PyNone
    /\ stderr = << >>
    /\ sent = NoSent
    /\ trace = << >>

\* fetch_github_file, lines 120-122: a fresh session
FetchEnter ==
    /\ pc = "fetch_call"
    /\ http' = [attempts |-> 0, total |-> RetryTotal, last |-> NoOutcome]
    /\ pc' = "fetch_get"
    /\ UNCHANGED << entry, config, content, doc_content, features, idx,
                    commit_sha, response, commit_detail, details, ret, stderr,
                    sent, trace >>

\* session.get: one request sent, and what the adapter does with its outcome
HttpAttempt ==
    /\ pc \in {"fetch_get", "commit_get"}
    /\ \E o \in Outcomes(pc) :
         LET left == http.total - 1 IN
         /\ sent' = [sent EXCEPT ![Endpoint(pc)] = @ + 1]
         /\ IF IsRetry(o) /\ ~Exhausted(left)
              THEN /\ http' = [attempts |-> http.attempts + 1, total |-> left,
                               last |-> o]
                   /\ pc' = pc
                   /\ UNCHANGED response
              ELSE /\ http' = [attempts |-> http.attempts + 1,
                               total |-> http.total, last |-> o]
                   /\ response' = IF IsRetry(o) THEN Raised(o) ELSE o
                   /\ pc' = IF pc = "fetch_get" THEN "fetch_got" ELSE "commit_got"
    /\ UNCHANGED << entry, config, content, doc_content, features, idx,
                    commit_sha, commit_detail, details, ret, stderr, trace >>

\* fetch_github_file, lines 127-149
FetchReturn ==
    /\ pc = "fetch_got"
    /\ stderr' = Eprint(stderr, FetchResult(response).diag)
    /\ IF entry = "fetch_github_file"
         THEN /\ ret' = FetchResult(response).ret
              /\ pc' = "done"
              /\ UNCHANGED doc_content
         ELSE /\ doc_content' = FetchResult(response).ret
              /\ pc' = "step1"
              /\ UNCHANGED ret
    /\ http' = NoHttp
    /\ UNCHANGED << entry, config, content, features, idx, commit_sha,
                    response, commit_detail, details, sent, trace >>

\* verify_commit, lines 161-167
VerifyCommitEnter ==
    /\ pc = "commit_call"
    /\ IF ~ReMatchSha(commit_sha)
         THEN /\ stderr' = Eprint(stderr, "commit_bad_sha")
              /\ commit_detail' = PyNone
              /\ pc' = IF entry = "verify_commit" THEN "done" ELSE "step6b"
              /\ UNCHANGED http
         ELSE /\ http' = [attempts |-> 0, total |-> RetryTotal, last |-> NoOutcome]
              /\ pc' = "commit_get"
              /\ UNCHANGED << stderr, commit_detail >>
    /\ UNCHANGED << entry, config, content, doc_content, features, idx,
                    commit_sha, response, details, ret, sent, trace >>

\* verify_commit, lines 172-210
VerifyCommitReturn ==
    /\ pc = "commit_got"
    /\ stderr' = Eprint(stderr, CommitResult(response).diag)
    /\ commit_detail' = CommitResult(response).ret
    /\ pc' = IF entry = "verify_commit" THEN "done" ELSE "step6b"
    /\ http' = NoHttp
    /\ UNCHANGED << entry, config, content, doc_content, features, idx,
                    commit_sha, response, details, ret, sent, trace >>

NextHttp ==
    \/ FetchEnter
    \/ HttpAttempt
    \/ FetchReturn
    \/ VerifyCommitEnter
    \/ VerifyCommitReturn

SpecHttp == InitHttp /\ [][NextHttp]_vars

-----------------------------------------------------------------------------
(* run_verification as the program runs it *)

InitRun ==
    /\ entry = "run_verification"
    /\ pc = "fetch_call"
    /\ config \in RunConfigs
    /\ content = << >>
    /\ doc_content = PyNone
    /\ features = << >>
    /\ idx = 0
    /\ commit_sha = << >>
    /\ http = NoHttp
    /\ response = NoOutcome
    /\ commit_detail = PyNone
    /\ details = << >>
    /\ ret = PyNone
    /\ stderr = << >>
    /\ sent = NoSent
    /\ trace = << >>

NextRun ==
    \/ FetchEnter
    \/ HttpAttempt
    \/ FetchReturn
    \/ Step1
    \/ Step2
    \/ Step3
    \/ Step4
    \/ Step5
    \/ Step6a
    \/ VerifyCommitEnter
    \/ VerifyCommitReturn
    \/ Step6b
    \/ Step6c
    \/ Step6d
    \/ Step6e
    \/ Step7

SpecRun == InitRun /\ [][NextRun]_vars

-----------------------------------------------------------------------------
(* What the claims about the parser speak of *)

ParseDone == entry = "parse_feature_table" /\ pc = "done"

\* the first line holding the header marker (0: none)
HeaderIdx(lines, h) ==
    IF \E i \in 1..Len(lines) : Contains(lines[i], h)
      THEN CHOOSE i \in 1..Len(lines) :
             /\ Contains(lines[i], h)
             /\ \A j \in 1..(i - 1) : ~Contains(lines[j], h)
      ELSE 0

IsHashLine(l) == StartsWith(Strip(l), <<"#", "#">>)

\* the first ##-line after line h (Len + 1: none)
EndIdx(lines, h) ==
    IF \E i \in (h + 1)..Len(lines) : IsHashLine(lines[i])
      THEN CHOOSE i \in (h + 1)..Len(lines) :
             /\ IsHashLine(lines[i])
             /\ \A j \in (h + 1)..(i - 1) : ~IsHashLine(lines[j])
      ELSE Len(lines) + 1

IsPipeRow(l) == StartsWith(Strip(l), <<"|">>)

WithoutLine(lines, i) ==
    Join([k \in 1..(Len(lines) - 1) |->
            IF k < i THEN lines[k] ELSE lines[k + 1]], "\n")

\* the cells between a row's first and its last pipe, empty ones counted
PipeCount(l) == Cardinality({k \in 1..Len(l) : l[k] = "|"})

\* a row's non-empty pipe-delimited cells
NonEmptyCells(l) ==
    LET segs == Split(Strip(l), "|")
    IN  Cardinality({k \in 1..Len(segs) : Strip(segs[k]) # << >>})

\* C2: the table ends at the first ##-line after the header: what is parsed
\* is what is parsed from the document cut before that line, whatever the
\* ##-line holds.
C2_TableEndsAtFirstHashLine ==
    ParseDone =>
        LET lines == Split(content, "\n")
            h == HeaderIdx(lines, config.table_header)
        IN  h > 0 =>
              features = parse_feature_table(
                             Join(SubSeq(lines, 1, EndIdx(lines, h) - 1), "\n"),
                             config.table_header)

\* C3 as stated: a pipe row after the header with fewer than 7 non-empty
\* cells adds nothing to the record count.
C3_FewNonEmptyCellsDropped ==
    ParseDone =>
        LET lines == Split(content, "\n")
            h == HeaderIdx(lines, config.table_header)
        IN  h > 0 =>
              \A i \in (h + 1)..Len(lines) :
                  IsPipeRow(lines[i]) /\ NonEmptyCells(lines[i]) < 7 =>
                      Len(parse_feature_table(WithoutLine(lines, i),
                                              config.table_header))
                          = Len(features)

\* C3 as amended: a pipe row after the header with fewer than 7 cells between
\* its first and its last pipe (empty cells counted) adds nothing to the
\* record count.
C3_FewCellsDropped ==
    ParseDone =>
        LET lines == Split(content, "\n")
            h == HeaderIdx(lines, config.table_header)
        IN  h > 0 =>
              \A i \in (h + 1)..Len(lines) :
                  IsPipeRow(lines[i]) /\ PipeCount(lines[i]) - 1 < 7 =>
                      Len(parse_feature_table(WithoutLine(lines, i),
                                              config.table_header))
                          = Len(features)

\* a row of 6 cells stood in the table, before its end, and was dropped
\* beside a row that was kept
C3_Witness ==
    /\ ParseDone
    /\ Len(features) = 1
    /\ LET lines == Split(content, "\n")
           h == HeaderIdx(lines, config.table_header)
       IN  /\ h > 0
           /\ \E i \in (h + 1)..(EndIdx(lines, h) - 1) :
                 /\ IsPipeRow(lines[i])
                 /\ PipeCount(lines[i]) - 1 = 6
                 /\ ~Contains(lines[i], <<"-", "-", "-">>)
                 /\ ~Contains(lines[i], config.table_header)

\* a markdown divider row: pipes, dashes, colons and blanks only
IsDivider(l) ==
    /\ \A k \in 1..Len(l) : l[k] \in {"|", "-", ":", " "}
    /\ Contains(l, <<"-", "-", "-">>)

\* the trimmed cells between a row's outer pipes; the last pipe may be absent
OuterCells(l) ==
    LET r == Strip(l)
        inner == IF r[Len(r)] = "|" THEN SubSeq(r, 2, Len(r) - 1)
                 ELSE SubSeq(r, 2, Len(r))
        segs == Split(inner, "|")
    IN  [k \in 1..Len(segs) |-> Strip(segs[k])]

\* the records C10 describes, for the lines i..e-1 of the table
RECURSIVE RowsAsDescribed(_, _, _)
RowsAsDescribed(lines, i, e) ==
    IF i >= e THEN << >>
    ELSE IF /\ IsPipeRow(lines[i])
            /\ ~IsDivider(Strip(lines[i]))
            /\ Len(OuterCells(lines[i])) >= 7
      THEN << [name |-> OuterCells(lines[i])[1], sha |-> OuterCells(lines[i])[2],
               author |-> OuterCells(lines[i])[3], branch |-> OuterCells(lines[i])[4],
               date |-> OuterCells(lines[i])[5],
               files_changed |-> OuterCells(lines[i])[6],
               message |-> OuterCells(lines[i])[7]] >>
           \o RowsAsDescribed(lines, i + 1, e)
      ELSE RowsAsDescribed(lines, i + 1, e)

\* C10: only the first line holding the marker is the header; between it and
\* the closing ##-line every pipe row that is no divider and has at least 7
\* cells between its outer pipes yields one record of its first 7 trimmed
\* cells, in document order.
C10_EveryDataRowParsed ==
    ParseDone =>
        LET lines == Split(content, "\n")
            h == HeaderIdx(lines, config.table_header)
        IN  h > 0 =>
              features = RowsAsDescribed(lines, h + 1, EndIdx(lines, h))

-----------------------------------------------------------------------------
(* What the claims about the two GitHub calls speak of *)

\* a request of the session is under way and will be sent (again)
Sending == pc \in {"fetch_get", "commit_get"}

\* retries follow the listed statuses only, and never a 404 or a 403
RetriedStatusesOnly ==
    /\ Sending /\ http.last.kind = "response" =>
           http.last.status \in {429, 500, 502, 503, 504}
    /\ http.last.kind = "response" /\ http.last.status \in {403, 404} =>
           ~Sending /\ response = http.last

\* C5 as stated: a call sends at most 3 HTTP attempts in all, retries
\* follow only the statuses 429/500/502/503/504, and a 404 or a 403 is
\* answered by the attempt that received it.
C5_AtMostThreeAttempts ==
    /\ http.attempts <= 3
    /\ sent.contents <= 3 /\ sent.commits <= 3
    /\ RetriedStatusesOnly

\* C5 as amended: a call sends at most 4 HTTP attempts in all, the first
\* request and up to 3 retries; a retry that follows a response follows one
\* of the statuses 429/500/502/503/504, and a 404 or a 403 is answered by
\* the attempt that received it.
C5_AtMostFourAttempts ==
    /\ http.attempts <= 4
    /\ sent.contents <= 4 /\ sent.commits <= 4
    /\ RetriedStatusesOnly

\* a fourth attempt was sent, after three retried ones
C5_Witness ==
    /\ http.attempts = 4
    /\ pc \in {"fetch_got", "commit_got"}
    /\ sent.contents + sent.commits = 4

\* the four failure kinds of fetch_github_file (""; none of them)
FailureKind(r) ==
    IF r.kind = "response" /\ r.status = 404 THEN "not-found"
    ELSE IF r.kind = "response" /\ r.status = 403 THEN "access-denied"
    ELSE IF r.kind = "raised_timeout" THEN "transport-timeout"
    ELSE IF r.kind = "raised_exception" THEN "other-transport-error"
    ELSE ""

FailedResults ==
    { Response(404, NoBody), Response(403, NoBody),
      Raised(TransportError("connect_timeout")),
      Raised(TransportError("conn_error")) }

FetchDone == entry = "fetch_github_file" /\ pc = "done"

\* C6 as stated: no two of the four failure kinds yield the same returned
\* value.
C6_FailureKindsReturnedApart ==
    FetchDone /\ FailureKind(response) # "" =>
        \A r \in FailedResults :
            FailureKind(r) # FailureKind(response) => FetchResult(r).ret # ret

\* C6 as amended: each of the four failure kinds returns None, and the kinds
\* are apart only in the line printed to stderr: no two of them print the
\* same diagnostic.
C6_FailureKindsPrintedApart ==
    FetchDone /\ FailureKind(response) # "" =>
        /\ ret = PyNone
        /\ Len(stderr) = 1
        /\ stderr[1] \in {"fetch_404", "fetch_403", "fetch_timeout", "fetch_exception"}
        /\ \A r \in FailedResults :
              FailureKind(r) # FailureKind(response) =>
                  /\ FetchResult(r).ret = ret
                  /\ FetchResult(r).diag # stderr[1]

\* fetch_github_file returned after a 403
C6_Witness ==
    /\ FetchDone
    /\ response.kind = "response" /\ response.status = 403
    /\ ret = PyNone
    /\ stderr = <<"fetch_403">>

\* exactly 40 characters, each of a-f or 0-9
IsSha40(s) == Len(s) = 40 /\ \A k \in 1..Len(s) : s[k] \in HexChars

\* C8: for a string that is not exactly 40 characters of [a-f0-9],
\* verify_commit returns failure and no request is sent, and run_verification
\* fails at a record with such a sha that is a key of expected_authors
\* before any lookup for it.
C8_MalformedShaNoRequest ==
    /\ entry = "verify_commit" /\ ~IsSha40(commit_sha) =>
           /\ sent.commits = 0
           /\ pc \in {"commit_call", "done"}
           /\ pc = "done" => commit_detail = PyNone
    /\ entry = "run_verification" /\ idx \in 1..Len(features)
         /\ pc \notin {"step6", "done"} =>
           IsSha40(features[idx].sha)

-----------------------------------------------------------------------------
(* What the claims about run_verification speak of *)

RunDone == entry = "run_verification" /\ pc = "done"

IsTrue(x) == x = PyBool(TRUE)

IsFalse(x) == x = PyBool(FALSE)

\* the table as parsed from the fetched document
Table == parse_feature_table(doc_content.v, config.table_header)

\* the sha the table maps a name to: that of the last record of that name
MappedSha(feats, name) ==
    feats[CHOOSE i \in 1..Len(feats) :
            /\ feats[i].name = name
            /\ \A j \in (i + 1)..Len(feats) : feats[j].name # name].sha

\* the pair is absent from the table, or mapped to another sha
PairFails(feats, pair) ==
    \/ \A i \in 1..Len(feats) : feats[i].name # pair.k
    \/ MappedSha(feats, pair.k) # pair.v

\* a document was fetched, and a name of expected_features is absent from
\* its table or mapped to another sha
TableMismatch ==
    /\ Truthy(doc_content)
    /\ \E k \in 1..Len(config.expected_features) :
          PairFails(Table, config.expected_features[k])

\* C1: when a name of expected_features is absent from the parsed table, or
\* mapped to another sha, the run returns False and no commit lookup request
\* is sent at any point of it.  Stated by contraposition: once a lookup is
\* begun or sent, or True is returned, every expected pair is in the table
\* that step 3 parsed.
C1_MismatchFailsBeforeLookup ==
    /\ entry = "run_verification"
    /\ Truthy(doc_content)
    /\ \/ sent.commits # 0
       \/ pc \in {"commit_call", "commit_get", "commit_got"}
       \/ pc = "done" /\ ~IsFalse(ret)
    => \A k \in 1..Len(config.expected_features) :
           ~PairFails(features, config.expected_features[k])

\* the run failed at step 5 on a table whose first record would have been
\* looked up
C1_Witness ==
    /\ RunDone
    /\ IsFalse(ret)
    /\ trace # << >>
    /\ trace[Len(trace)].step = "feature"
    /\ features # << >>
    /\ HasKey(config.expected_authors, features[1].sha)
    /\ TableMismatch
    /\ sent.commits = 0

\* the run got past step 5
PastStep5 ==
    /\ \E k \in 1..Len(trace) : trace[k].step = "min_count" /\ trace[k].ok
    /\ \A k \in 1..Len(trace) : trace[k].step = "feature" => trace[k].ok
    /\ pc \notin {"step5"}

MalformedKey(d) == \E k \in 1..Len(d) : ~IsSha40(d[k].k)

\* C4 as stated: a run that gets past step 5 returns False when any key of
\* expected_authors, expected_messages or expected_dates is malformed.
C4_MalformedKeyFails ==
    /\ RunDone
    /\ PastStep5
    /\ \/ MalformedKey(config.expected_authors)
       \/ MalformedKey(config.expected_messages)
       \/ MalformedKey(config.expected_dates)
    => IsFalse(ret)

\* C4 as amended: a run that gets past step 5 returns False when a parsed
\* record's sha is a key of expected_authors and is malformed; it fails at
\* that record's format check, before its lookup, unless it failed at an
\* earlier record.
C4_MalformedRecordShaFails ==
    RunDone /\ PastStep5 =>
        \A i \in 1..Len(features) :
            /\ HasKey(config.expected_authors, features[i].sha)
            /\ ~IsSha40(features[i].sha)
            => /\ IsFalse(ret)
               /\ trace[Len(trace)].ok = FALSE
               /\ trace[Len(trace)].rec <= i
               /\ trace[Len(trace)].rec = i =>
                      trace[Len(trace)].step = "sha_format"

\* the run failed at the format check of its second record
C4_Witness ==
    /\ RunDone
    /\ PastStep5
    /\ IsFalse(ret)
    /\ Len(features) = 2
    /\ ~IsSha40(features[2].sha)
    /\ trace[Len(trace)] = Check("sha_format", 2, FALSE)
    /\ Len(details) = 1

RecordSteps == <<"sha_format", "lookup", "author", "message", "date">>

StepIndex(st) == CHOOSE n \in 1..Len(RecordSteps) : RecordSteps[n] = st

IsRecordStep(st) == \E n \in 1..Len(RecordSteps) : RecordSteps[n] = st

\* the records strictly between i and j need no commit verification
SkippedBetween(i, j) ==
    \A m \in (i + 1)..(j - 1) :
        ~HasKey(config.expected_authors, features[m].sha)

\* check b may come right after check a
Follows(a, b) ==
    IF a.step = "fetch"
      THEN \/ b = Check("section", 1, b.ok)
           \/ b.step = "parse" /\ config.required_sections = << >>
    ELSE IF a.step = "section"
      THEN \/ b = Check("section", a.rec + 1, b.ok)
           \/ b.step = "parse" /\ a.rec = Len(config.required_sections)
    ELSE IF a.step = "parse" THEN b.step = "min_count"
    ELSE IF a.step = "min_count"
      THEN \/ b = Check("feature", 1, b.ok)
           \/ /\ b.step = "sha_format"
              /\ config.expected_features = << >>
              /\ SkippedBetween(0, b.rec)
    ELSE IF a.step = "feature"
      THEN \/ b = Check("feature", a.rec + 1, b.ok)
           \/ /\ b.step = "sha_format"
              /\ a.rec = Len(config.expected_features)
              /\ SkippedBetween(0, b.rec)
    ELSE IF a.step = "date"
      THEN b.step = "sha_format" /\ b.rec > a.rec /\ SkippedBetween(a.rec, b.rec)
    ELSE /\ IsRecordStep(b.step)
         /\ b.rec = a.rec
         /\ StepIndex(b.step) = StepIndex(a.step) + 1

DetailOf(i) == details[CHOOSE j \in 1..Len(details) : details[j].rec = i].detail

\* the author check as the specification words it
AuthorAccepted(d, expected) ==
    \/ /\ "author" \notin d.keys \/ d.author.t = "None"
       /\ expected.t = "None"
    \/ /\ "author" \in d.keys
       /\ d.author.t = "dict"
       /\ d.author.login.t = "str"
       /\ d.author.login.v # << >>
       /\ d.author.login = expected

\* the text before the first line break
BeforeLineBreak(m) ==
    IF \E k \in 1..Len(m) : m[k] = "\n"
      THEN SubSeq(m, 1, (CHOOSE k \in 1..Len(m) :
                           m[k] = "\n" /\ \A j \in 1..(k - 1) : m[j] # "\n") - 1)
      ELSE m

IsDate(dt) ==
    /\ Len(dt) = 10
    /\ \A k \in {1, 2, 3, 4, 6, 7, 9, 10} : dt[k] \in DigitChars
    /\ dt[5] = "-" /\ dt[8] = "-"

\* record i passed the checks a to e
RecordVerified(i) ==
    /\ IsSha40(features[i].sha)
    /\ \E j \in 1..Len(details) : details[j].rec = i
    /\ DetailOf(i).t = "dict"
    /\ AuthorAccepted(DetailOf(i).v[1],
                      GetOr(config.expected_authors, features[i].sha, PyNone))
    /\ LET m == DetailOf(i).v[1].message
           want == GetOr(config.expected_messages, features[i].sha, PyStr(<< >>))
       IN  BeforeLineBreak(IF m.t = "None" THEN << >> ELSE m.v) = want.v
    /\ IsDate(features[i].date)
    /\ HasKey(config.expected_dates, features[i].sha)
    /\ GetOr(config.expected_dates, features[i].sha, PyNone) = PyStr(features[i].date)

\* C7: the checks run in the fixed order fetch, sections, parse, minimum
\* count, name-to-sha pairs, then sha format, lookup, author, message and
\* date for each record to verify, in document order; the first failing
\* check ends the run with False, with no later check and no later request;
\* and True is returned only when every check passed.
C7_FixedOrderFailFast ==
    entry = "run_verification" =>
        /\ trace # << >> => trace[1].step = "fetch"
        /\ \A k \in 1..(Len(trace) - 1) :
              trace[k].ok /\ Follows(trace[k], trace[k + 1])
        /\ trace # << >> /\ ~trace[Len(trace)].ok => pc = "done" /\ IsFalse(ret)
        /\ pc = "done" => ~ENABLED NextRun
        /\ sent.contents > 0 /\ trace # << >> => sent.contents = 1
        /\ sent.commits > 0 =>
              \E k \in 1..Len(trace) : trace[k].step = "sha_format" /\ trace[k].ok
        /\ pc = "done" /\ IsTrue(ret) =>
              /\ Truthy(doc_content)
              /\ \A k \in 1..Len(config.required_sections) :
                    Contains(doc_content.v, config.required_sections[k])
              /\ features = Table
              /\ Len(features) >= 1
              /\ Len(features) >= config.min_feature_count
              /\ \A k \in 1..Len(config.expected_features) :
                    ~PairFails(features, config.expected_features[k])
              /\ \A i \in 1..Len(features) :
                    HasKey(config.expected_authors, features[i].sha) =>
                        RecordVerified(i)

\* the run returned True after verifying two commits
C7_Witness ==
    /\ RunDone
    /\ IsTrue(ret)
    /\ Len(details) = 2
    /\ sent.commits = 2

\* C9: the author check passes exactly when the commit has no author and
\* none is expected, or the commit's author has a non-empty login equal to
\* the expected one; passing, the run goes on to the message check, failing,
\* it returns False.
C9_AuthorCheck ==
    entry = "run_verification" =>
        \A k \in 1..Len(trace) :
            trace[k].step = "author" =>
                LET i == trace[k].rec IN
                /\ trace[k].ok <=>
                       AuthorAccepted(DetailOf(i).v[1],
                                      GetOr(config.expected_authors,
                                            features[i].sha, PyNone))
                /\ trace[k].ok =>
                       \/ k = Len(trace) /\ pc = "step6d"
                       \/ k < Len(trace) /\ trace[k + 1].step = "message"
                                         /\ trace[k + 1].rec = i
                /\ ~trace[k].ok => k = Len(trace) /\ pc = "done" /\ IsFalse(ret)

\* a commit without an author, none expected: the run went on to the
\* message check
C9_Witness ==
    /\ entry = "run_verification"
    /\ \E k \in 1..(Len(trace) - 1) :
          /\ trace[k] = Check("author", trace[k].rec, TRUE)
          /\ AuthorOf(DetailOf(trace[k].rec).v[1]).t = "None"
          /\ GetOr(config.expected_authors, features[trace[k].rec].sha,
                   Alice).t = "None"
          /\ trace[k + 1].step = "message"

=============================================================================
